---- MODULE Spec2Model ----
(***************************************************************************)
(* The executor-service proxy of promptflow's batch engine                 *)
(* (promptflow/batch/_base_executor_proxy.py): APIBasedExecutorProxy.      *)
(*                                                                         *)
(* Every coroutine call (exec_line_async, exec_aggregation_async) is a     *)
(* process with its own locals; the executor service and the wall clock    *)
(* are the environment.  Python values, HTTP responses and call results    *)
(* are all trees of one shape (Node), response bodies are character        *)
(* strings, and json.loads / json.dumps are computed on those characters.  *)
(***************************************************************************)
EXTENDS Integers, Sequences, FiniteSets, TLC

(***************************************************************************)
(* Bounds of the model.                                                    *)
(***************************************************************************)
\* clock readings per second (datetime.utcnow() has sub-second resolution)
TicksPerSecond == 2
\* the wall clock stops advancing after this many seconds
MaxSeconds == 6
\* health probes one call may start
MaxProbes == 2
\* calls of destroy() in one run
MaxDestroys == 2
\* nodes of a flow
MaxNodes == 3
\* nested calls the interpreter allows before RecursionError
MaxRecursion == 3

(***************************************************************************)
(* Constants of the program.                                               *)
(***************************************************************************)
\* _ensure_executor_health: waiting_health_timeout = 5
waiting_health_timeout == 5
\* timedelta.seconds is the seconds field of the normalised delta: 0..86399
SecondsPerDay == 86400
\* the status _process_http_response and check_health take for success
HTTP_OK == 200

\* the tasks of the orchestrator; each awaits one call of the proxy at a time
Tasks == {"t1", "t2", "t3"}
\* the task that runs alone in Spec
MainTask == "t1"

(***************************************************************************)
(* Values.  One record shape for every Python object the proxy handles:    *)
(*   t    the type ("None", "str", "int", "bool", "list", "dict", ...)     *)
(*   s    the characters of a str, the key of a dict item, an exception    *)
(*        class, the text of a response                                    *)
(*   n    the number of an int, a bool (0/1), a datetime (ticks), a status *)
(*   kids the children, in order                                           *)
(***************************************************************************)
Node(t, s, n, kids) == [t |-> t, s |-> s, n |-> n, kids |-> kids]

PyNone == Node("None", "", 0, <<>>)
PyStr(s) == Node("str", s, 0, <<>>)
PyInt(n) == Node("int", "", n, <<>>)
PyBool(b) == Node("bool", "", IF b THEN 1 ELSE 0, <<>>)
PyList(items) == Node("list", "", 0, items)
PyItem(k, v) == Node("item", k, 0, <<v>>)
PyDict(items) == Node("dict", "", 0, items)
PyDatetime(ticks) == Node("datetime", "", ticks, <<>>)
EmptyDict == PyDict(<<>>)

\* key in d, for a dict d
HasKey(d, k) == \E i \in 1..Len(d.kids) : d.kids[i].s = k
\* d[k], for a dict d that has k
GetItem(d, k) == d.kids[CHOOSE i \in 1..Len(d.kids) : d.kids[i].s = k].kids[1]
\* d.get(k, default)
DictGet(d, k, default) == IF HasKey(d, k) THEN GetItem(d, k) ELSE default
\* sub in s, for two strs
StrContains(s, sub) ==
  \E i \in 1..(Len(s) - Len(sub) + 1) : SubSeq(s, i, i + Len(sub) - 1) = sub

(***************************************************************************)
(* json.loads, on the characters of the text (objects, arrays, strings     *)
(* without escapes, non-negative integers, true, false, null; blanks       *)
(* between tokens).  Anything else is a JSONDecodeError.                   *)
(***************************************************************************)
Ch(s, i) == IF i >= 1 /\ i <= Len(s) THEN SubSeq(s, i, i) ELSE ""
Digits == <<"0", "1", "2", "3", "4", "5", "6", "7", "8", "9">>
IsDigit(c) == \E d \in 1..10 : Digits[d] = c
DigitVal(c) == (CHOOSE d \in 1..10 : Digits[d] = c) - 1
ParseFail == [ok |-> FALSE, v |-> PyNone, i |-> 0]
ParseOk(v, i) == [ok |-> TRUE, v |-> v, i |-> i]

RECURSIVE SkipWs(_, _)
SkipWs(s, i) == IF Ch(s, i) = " " THEN SkipWs(s, i + 1) ELSE i

RECURSIVE StrEnd(_, _)
\* the place of the quote that closes the string whose characters start at i
\* (0: the text ends first)
StrEnd(s, i) ==
  IF i > Len(s) THEN 0
  ELSE IF Ch(s, i) = "\"" THEN i
  ELSE StrEnd(s, i + 1)

RECURSIVE NumEnd(_, _)
NumEnd(s, i) == IF IsDigit(Ch(s, i)) THEN NumEnd(s, i + 1) ELSE i

RECURSIVE NumVal(_, _, _, _)
NumVal(s, i, j, acc) ==
  IF i >= j THEN acc ELSE NumVal(s, i + 1, j, acc * 10 + DigitVal(Ch(s, i)))

RECURSIVE ParseValue(_, _)
RECURSIVE ParseMembers(_, _, _)
RECURSIVE ParseElements(_, _, _)
ParseValue(s, i0) ==
  LET i == SkipWs(s, i0)
      c == Ch(s, i)
  IN  CASE c = "{" ->
             LET j == SkipWs(s, i + 1)
             IN  IF Ch(s, j) = "}" THEN ParseOk(EmptyDict, j + 1)
                 ELSE ParseMembers(s, j, <<>>)
        [] c = "[" ->
             LET j == SkipWs(s, i + 1)
             IN  IF Ch(s, j) = "]" THEN ParseOk(PyList(<<>>), j + 1)
                 ELSE ParseElements(s, j, <<>>)
        [] c = "\"" ->
             LET e == StrEnd(s, i + 1)
             IN  IF e = 0 THEN ParseFail
                 ELSE ParseOk(PyStr(SubSeq(s, i + 1, e - 1)), e + 1)
        [] IsDigit(c) ->
             LET e == NumEnd(s, i) IN ParseOk(PyInt(NumVal(s, i, e, 0)), e)
        [] c = "t" /\ SubSeq(s, i, i + 3) = "true" -> ParseOk(PyBool(TRUE), i + 4)
        [] c = "f" /\ SubSeq(s, i, i + 4) = "false" -> ParseOk(PyBool(FALSE), i + 5)
        [] c = "n" /\ SubSeq(s, i, i + 3) = "null" -> ParseOk(PyNone, i + 4)
        [] OTHER -> ParseFail

\* "key": value {, "key": value} "}"; a repeated key keeps its last value
ParseMembers(s, i0, acc) ==
  LET i == SkipWs(s, i0)
  IN  IF Ch(s, i) # "\"" THEN ParseFail
      ELSE LET e == StrEnd(s, i + 1)
               c == SkipWs(s, e + 1)
           IN  IF e = 0 \/ Ch(s, c) # ":" THEN ParseFail
               ELSE LET r == ParseValue(s, c + 1)
                        k == SubSeq(s, i + 1, e - 1)
                        j == SkipWs(s, r.i)
                        items == Append(SelectSeq(acc, LAMBDA it : it.s # k),
                                        PyItem(k, r.v))
                    IN  IF ~r.ok THEN ParseFail
                        ELSE IF Ch(s, j) = "," THEN ParseMembers(s, j + 1, items)
                        ELSE IF Ch(s, j) = "}" THEN ParseOk(PyDict(items), j + 1)
                        ELSE ParseFail

\* value {, value} "]"
ParseElements(s, i0, acc) ==
  LET r == ParseValue(s, i0)
      j == SkipWs(s, r.i)
  IN  IF ~r.ok THEN ParseFail
      ELSE IF Ch(s, j) = "," THEN ParseElements(s, j + 1, Append(acc, r.v))
      ELSE IF Ch(s, j) = "]" THEN ParseOk(PyList(Append(acc, r.v)), j + 1)
      ELSE ParseFail

\* json.loads(text): [ok |-> TRUE, v |-> the value], or ok = FALSE for a
\* JSONDecodeError
json_loads(text) ==
  LET r == ParseValue(text, 1)
  IN  IF r.ok /\ SkipWs(text, r.i) = Len(text) + 1
      THEN [ok |-> TRUE, v |-> r.v]
      ELSE [ok |-> FALSE, v |-> PyNone]

(***************************************************************************)
(* json.dumps, with Python's default separators.                           *)
(***************************************************************************)
RECURSIVE json_dumps(_)
RECURSIVE DumpSeq(_, _)
json_dumps(v) ==
  CASE v.t = "None" -> "null"
    [] v.t = "bool" -> IF v.n = 1 THEN "true" ELSE "false"
    [] v.t = "int" -> ToString(v.n)
    [] v.t = "str" -> "\"" \o v.s \o "\""
    [] v.t = "list" -> "[" \o DumpSeq(v.kids, 1) \o "]"
    [] v.t = "dict" -> "{" \o DumpSeq(v.kids, 1) \o "}"
    [] v.t = "item" -> "\"" \o v.s \o "\": " \o json_dumps(v.kids[1])
DumpSeq(kids, i) ==
  IF i > Len(kids) THEN ""
  ELSE json_dumps(kids[i]) \o (IF i < Len(kids) THEN ", " ELSE "") \o DumpSeq(kids, i + 1)

(***************************************************************************)
(* Time.  The clock counts ticks; datetime.utcnow() reads it.              *)
(***************************************************************************)
MaxClock == MaxSeconds * TicksPerSecond
\* (later - earlier).seconds, for two readings of the clock
Seconds(later, earlier) == ((later - earlier) \div TicksPerSecond) % SecondsPerDay

(***************************************************************************)
(* HTTP.  A response carries its status code and its text; a request that  *)
(* fails in the transport (connection refused, timeout, DNS) raises an     *)
(* httpx.TransportError to the awaiting coroutine instead.                 *)
(***************************************************************************)
Response(status_code, text) == Node("Response", text, status_code, <<>>)
TransportError == Node("TransportError", "", 0, <<>>)
NoResponse == Node("NoResponse", "", 0, <<>>)
IsResponse(r) == r.t = "Response"
Request(method, url, json) == Node(method, url, 0, <<json>>)

(***************************************************************************)
(* What a call ends with: a returned object or a raised exception.         *)
(***************************************************************************)
Pending == Node("pending", "", 0, <<>>)
Raise(exc) == Node("raise", exc, 0, <<>>)
Raised(r) == r.t = "raise"

\* LineResult(output, aggregation_inputs, run_info, node_run_infos)
LineResult(output, aggregation_inputs, run_info, node_run_infos) ==
  Node("LineResult", "", 0, <<output, aggregation_inputs, run_info, node_run_infos>>)
IsLineResult(r) == r.t = "LineResult"
\* AggregationResult(output, metrics, node_run_infos)
AggregationResult(output, metrics, node_run_infos) ==
  Node("AggregationResult", "", 0, <<output, metrics, node_run_infos>>)
\* FlowRunInfo: the correlation keys, the inputs, the start time, the error
FlowRunInfo(run_id, index, inputs, start_time, error) ==
  Node("FlowRunInfo", "", 0, <<run_id, index, inputs, start_time, error>>)

\* FlowRunInfo.create_with_error(start_time, inputs, index, run_id, error)
FlowRunInfo_create_with_error(start_time, inputs, index, run_id, error) ==
  FlowRunInfo(run_id, index, inputs, start_time, error)

\* the dict a FlowRunInfo is sent as: the start time goes as a number
FlowRunInfo_serialize(ri) ==
  PyDict(<<PyItem("run_id", ri.kids[1]), PyItem("index", ri.kids[2]),
           PyItem("inputs", ri.kids[3]), PyItem("start_time", PyInt(ri.kids[4].n)),
           PyItem("error", ri.kids[5])>>)
\* the dict a LineResult is sent as
LineResult_serialize(lr) ==
  PyDict(<<PyItem("output", lr.kids[1]), PyItem("aggregation_inputs", lr.kids[2]),
           PyItem("run_info", FlowRunInfo_serialize(lr.kids[3])),
           PyItem("node_run_infos", lr.kids[4])>>)

FlowRunInfo_fields == {"run_id", "index", "inputs", "start_time", "error"}
LineResult_fields == {"output", "aggregation_inputs", "run_info", "node_run_infos"}
\* FlowRunInfo.deserialize takes a dict with the fields of a run info
IsRunInfoDict(d) ==
  /\ d.t = "dict"
  /\ \A k \in FlowRunInfo_fields : HasKey(d, k)
  /\ GetItem(d, "start_time").t = "int"
FlowRunInfo_deserialize(d) ==
  FlowRunInfo(GetItem(d, "run_id"), GetItem(d, "index"), GetItem(d, "inputs"),
              PyDatetime(GetItem(d, "start_time").n), GetItem(d, "error"))
\* LineResult.deserialize(data): the LineResult the dict encodes; a value that
\* encodes none makes the deserialization raise
IsLineResultDict(d) ==
  /\ d.t = "dict"
  /\ \A k \in LineResult_fields : HasKey(d, k)
  /\ IsRunInfoDict(GetItem(d, "run_info"))
LineResult_deserialize(data) ==
  IF IsLineResultDict(data)
  THEN LineResult(GetItem(data, "output"), GetItem(data, "aggregation_inputs"),
                  FlowRunInfo_deserialize(GetItem(data, "run_info")),
                  GetItem(data, "node_run_infos"))
  ELSE Raise("MalformedResponse")
\* AggregationResult.deserialize(data): the fields are read with data.get
AggregationResult_deserialize(data) ==
  IF data.t = "dict"
  THEN AggregationResult(DictGet(data, "output", PyNone), DictGet(data, "metrics", PyNone),
                         DictGet(data, "node_run_infos", EmptyDict))
  ELSE Raise("MalformedResponse")

(***************************************************************************)
(* APIBasedExecutorProxy._process_http_response                            *)
(***************************************************************************)
Returns(payload, has_error) == [payload |-> payload, has_error |-> has_error, exc |-> ""]
Raises(exc) == [payload |-> PyNone, has_error |-> FALSE, exc |-> exc]

\* `"error" in error_response`: a key of a dict, an element of a list, a
\* substring of a str; any other operand is not iterable (TypeError)
error_in(error_response) ==
  CASE error_response.t = "dict" ->
         IF HasKey(error_response, "error") THEN "True" ELSE "False"
    [] error_response.t = "list" ->
         IF \E i \in 1..Len(error_response.kids) : error_response.kids[i] = PyStr("error")
         THEN "True" ELSE "False"
    [] error_response.t = "str" ->
         IF StrContains(error_response.s, "error") THEN "True" ELSE "False"
    [] OTHER -> "TypeError"

\* a slip: the whole body is returned where its "error" value is meant
error_of_whole_body(error_response) == Returns(error_response, TRUE)

\* `error_response["error"]`: the value of the key in a dict; a list and a str
\* take integer indices only (TypeError)
error_of(error_response) ==
  IF error_response.t = "dict"
  THEN Returns(GetItem(error_response, "error"), TRUE)
  ELSE Raises("TypeError")

\* a slip: no `except JSONDecodeError` around the parse of a failure body
process_http_response_without_except(response) ==
  LET json == json_loads(response.s)
  IN  IF ~json.ok THEN Raises("JSONDecodeError")
      ELSE IF response.n = HTTP_OK THEN Returns(json.v, FALSE)
      ELSE CASE error_in(json.v) = "True" -> error_of(json.v)
             [] error_in(json.v) = "False" -> Returns(json.v, TRUE)
             [] OTHER -> Raises("TypeError")

process_http_response(response) ==
  LET status_code == response.n
      json == json_loads(response.s)
  IN  IF status_code = HTTP_OK
      THEN IF json.ok THEN Returns(json.v, FALSE) ELSE Raises("JSONDecodeError")
      ELSE IF ~json.ok THEN Returns(PyStr(response.s), TRUE)
      ELSE CASE error_in(json.v) = "True" -> error_of(json.v)
             [] error_in(json.v) = "False" -> Returns(json.v, TRUE)
             [] OTHER -> Raises("TypeError")

(***************************************************************************)
(* APIBasedExecutorProxy.check_health, after its request has resolved      *)
(***************************************************************************)
\* a slip: no `except Exception` around the request
check_health_returns_without_except(response) ==
  IF IsResponse(response)
  THEN IF response.n # HTTP_OK THEN PyBool(FALSE) ELSE PyBool(TRUE)
  ELSE Raise("TransportError")

\* a slip: every 2xx status taken for healthy
check_health_returns_any_2xx(response) ==
  IF IsResponse(response)
  THEN IF response.n < 200 \/ response.n > 299 THEN PyBool(FALSE) ELSE PyBool(TRUE)
  ELSE PyBool(FALSE)

\* try: ... if response.status_code != 200: return False; return True
\* except Exception: return False
check_health_returns(response) ==
  IF IsResponse(response)
  THEN IF response.n # HTTP_OK THEN PyBool(FALSE) ELSE PyBool(TRUE)
  ELSE PyBool(FALSE)

(***************************************************************************)
(* The requests.                                                           *)
(***************************************************************************)
health_url(endpoint) == endpoint \o "/health"
execution_url(endpoint) == endpoint \o "/Execution"
aggregation_url(endpoint) == endpoint \o "/Aggregation"

\* a slip: the index left out of the payload
execution_payload_without_index(inputs, index, run_id) ==
  PyDict(<<PyItem("run_id", run_id), PyItem("line_number", PyNone), PyItem("inputs", inputs)>>)

\* exec_line_async: payload = {"run_id": run_id, "line_number": index, "inputs": inputs}
execution_payload(inputs, index, run_id) ==
  PyDict(<<PyItem("run_id", run_id), PyItem("line_number", index), PyItem("inputs", inputs)>>)
\* exec_aggregation_async: payload = {"run_id": ..., "batch_inputs": ..., "aggregation_inputs": ...}
aggregation_payload(batch_inputs, aggregation_inputs, run_id) ==
  PyDict(<<PyItem("run_id", run_id), PyItem("batch_inputs", batch_inputs),
           PyItem("aggregation_inputs", aggregation_inputs)>>)

\* a slip: the run info of a successful line rebuilt from the call's own
\* start_time, inputs, index and run_id
exec_line_returns_own_run_info(start_time, inputs, index, run_id, http_response) ==
  LET r == process_http_response(http_response)
      own == FlowRunInfo_create_with_error(start_time, inputs, index, run_id, r.payload)
      lr == LineResult_deserialize(r.payload)
  IN  IF r.exc # "" THEN Raise(r.exc)
      ELSE IF r.has_error THEN LineResult(EmptyDict, EmptyDict, own, EmptyDict)
      ELSE IF Raised(lr) THEN lr
      ELSE LineResult(lr.kids[1], lr.kids[2],
                      FlowRunInfo(run_id, index, inputs, start_time, PyNone), lr.kids[4])

\* a slip: has_error ignored, as exec_aggregation_async ignores it
exec_line_returns_ignoring_has_error(start_time, inputs, index, run_id, http_response) ==
  LET r == process_http_response(http_response)
  IN  IF r.exc # "" THEN Raise(r.exc) ELSE LineResult_deserialize(r.payload)

\* exec_line_async, from the response on
exec_line_returns(start_time, inputs, index, run_id, http_response) ==
  LET r == process_http_response(http_response)
  IN  IF r.exc # "" THEN Raise(r.exc)
      ELSE IF r.has_error
      THEN LineResult(EmptyDict, EmptyDict,
                      FlowRunInfo_create_with_error(start_time, inputs, index, run_id, r.payload),
                      EmptyDict)
      ELSE LineResult_deserialize(r.payload)

\* a slip: a degraded result on has_error, as exec_line_async has one
exec_aggregation_returns_degraded(http_response) ==
  LET r == process_http_response(http_response)
  IN  IF r.exc # "" THEN Raise(r.exc)
      ELSE IF r.has_error THEN AggregationResult(EmptyDict, EmptyDict, EmptyDict)
      ELSE AggregationResult_deserialize(r.payload)

\* exec_aggregation_async, from the response on
exec_aggregation_returns(http_response) ==
  LET r == process_http_response(http_response)
  IN  IF r.exc # "" THEN Raise(r.exc)
      ELSE AggregationResult_deserialize(r.payload)

(***************************************************************************)
(* The environment: the callers' arguments and the executor service.       *)
(***************************************************************************)
Endpoints == {"http://localhost:8000"}

InputsA == PyDict(<<PyItem("question", PyStr("a"))>>)
InputsB == PyDict(<<PyItem("question", PyStr("b"))>>)
\* (inputs, index, run_id); index and run_id default to None
LineArgs ==
  { <<InputsA, PyInt(0), PyStr("run-1")>>,
    <<InputsB, PyInt(1), PyStr("run-1")>>,
    <<InputsA, PyNone, PyNone>> }
\* (batch_inputs, aggregation_inputs, run_id)
AggregationArgs ==
  { <<PyDict(<<PyItem("question", PyList(<<PyStr("a"), PyStr("b")>>))>>),
      PyDict(<<PyItem("score", PyList(<<PyInt(1), PyInt(0)>>))>>),
      PyStr("run-1")>> }
NoArgs == <<PyNone, PyNone, PyNone>>

\* what GET {endpoint}/health may resolve to
Healthy == Response(200, "healthy")
HealthResponses == { Healthy, Response(204, ""), Response(503, "starting"), TransportError }

\* the service runs on its own clock, which the proxy's never reads
ServiceNow == MaxClock + 1
\* the LineResult a working service computes for a posted line: the
\* correlation keys and the inputs of the request, its own start time
ServiceLineResult(json) ==
  LineResult(PyDict(<<PyItem("answer", GetItem(GetItem(json, "inputs"), "question"))>>),
             PyDict(<<PyItem("score", PyInt(1))>>),
             FlowRunInfo(GetItem(json, "run_id"), GetItem(json, "line_number"),
                         GetItem(json, "inputs"), PyDatetime(ServiceNow), PyNone),
             PyDict(<<PyItem("echo", PyDict(<<PyItem("status", PyStr("Completed"))>>))>>))
\* the dict a working service answers an aggregation with
ServiceAggregationResult(json) ==
  PyDict(<<PyItem("output", PyDict(<<PyItem("total", PyInt(1))>>)),
           PyItem("metrics", PyDict(<<PyItem("accuracy", PyInt(1))>>)),
           PyItem("node_run_infos", EmptyDict)>>)

\* bodies of a failure response: {"error": {...}}, a dict without "error",
\* text that is no JSON, and JSON that is no dict
ErrorBodies ==
  { "{\"error\": {\"message\": \"boom\"}}",
    "{\"detail\": \"bad request\"}",
    "Internal Server Error",
    "7",
    "\"worker crashed\"",
    "\"worker error\"",
    "[\"error\"]" }
\* bodies of a 200 response that encode no LineResult
MalformedBodies == { "<html>ok</html>", "{}" }

\* a working service's answers to POST {endpoint}/Execution: the line's
\* result, or a failure it reports as {"error": {...}}
WorkingExecutionResponses(request) ==
  { Response(200, json_dumps(LineResult_serialize(ServiceLineResult(request.kids[1])))),
    Response(500, "{\"error\": {\"message\": \"boom\"}}") }
\* what POST {endpoint}/Execution may resolve to
ExecutionResponses(request) ==
  WorkingExecutionResponses(request)
    \cup { Response(200, b) : b \in MalformedBodies }
    \cup { Response(500, b) : b \in ErrorBodies }
    \cup { TransportError }
\* what POST {endpoint}/Aggregation may resolve to
AggregationResponses(request) ==
  { Response(200, json_dumps(ServiceAggregationResult(request.kids[1]))),
    Response(500, "{\"error\": {\"message\": \"boom\"}}"),
    Response(500, "Internal Server Error"),
    Response(500, "7"),
    TransportError }

(***************************************************************************)
(* executor/_preloaded_resolved_tools.py: PreloadeResolvedTools            *)
(***************************************************************************)
\* a node of the flow, and the names the nodes of the model have
FlowNode(name) == Node("FlowNode", name, 0, <<>>)
NodeNames == {"fetch", "summarize"}

\* the lists of at most n nodes
RECURSIVE NodeLists(_)
NodeLists(n) ==
  IF n = 0 THEN {<<>>}
  ELSE LET shorter == NodeLists(n - 1)
       IN  shorter \cup { Append(l, FlowNode(x)) :
                            l \in { k \in shorter : Len(k) = n - 1 }, x \in NodeNames }

\* flow.nodes, for the flow files of the model
Flows == NodeLists(MaxNodes)
\* the connections the module is imported with
Connections == { EmptyDict, PyDict(<<PyItem("open_ai", PyStr("key"))>>) }

\* tool_resolver.resolve_tool_by_node(node), the resolver built with connections
resolve_tool_by_node(node, connections) == Node("ResolvedTool", node.s, 0, <<connections>>)
\* [tool_resolver.resolve_tool_by_node(node) for node in flow.nodes]
resolved_tools(nodes, connections) ==
  PyList([i \in 1..Len(nodes) |-> resolve_tool_by_node(nodes[i], connections)])

\* the attributes the class body defines with @property, and those of them
\* that have a setter
ClassProperties == {"tools"}
PropertySetters == {}

\* self.<name> = value: a property of the class comes before the instance's
\* __dict__, and a property with no setter raises AttributeError
instance_setattr(dict, name, value) ==
  IF name \in ClassProperties /\ name \notin PropertySetters
  THEN [dict |-> dict, exc |-> "AttributeError"]
  ELSE [dict |-> PyDict(Append(dict.kids, PyItem(name, value))), exc |-> ""]

\* self.<name>, read: the getter of a property of the class is called; the
\* getter of `tools` is `return self.tools`, the same read again, until the
\* interpreter's recursion limit
RECURSIVE instance_getattr(_, _, _)
instance_getattr(dict, name, depth) ==
  IF name \in ClassProperties
  THEN IF depth >= MaxRecursion THEN Raise("RecursionError")
       ELSE instance_getattr(dict, name, depth + 1)
  ELSE IF HasKey(dict, name) THEN GetItem(dict, name)
  ELSE Raise("AttributeError")

\* the module before its import, with the flow and the connections that
\* _line_execution_process_pool holds
NotImported(nodes, connections) ==
  [pc |-> "import", nodes |-> nodes, connections |-> connections, resolved |-> <<>>,
   dict |-> EmptyDict, result |-> Pending]

(***************************************************************************)
(* State.                                                                  *)
(***************************************************************************)
VARIABLES
  api_endpoint,  \* APIBasedExecutorProxy.api_endpoint
  clock,         \* the wall clock, in ticks
  pc,            \* pc[c]: where the call of task c stands
  kind,          \* kind[c]: "line" or "aggregation"
  args,          \* args[c]: the arguments of the call
  start_time,    \* exec_line_async: start_time
  health_start,  \* _ensure_executor_health: start_time
  sent,          \* sent[c]: the requests the call has sent, in order
  probes,        \* probes[c]: what check_health has returned to the call, in order
  health,        \* health[c]: what the last health request resolved to
  response,      \* response[c]: what the POST of the call resolved to
  result,        \* result[c]: what the call returned or raised
  client,        \* client[c]: the httpx.AsyncClient the call holds open
  normalized,    \* normalized[c]: what _process_http_response gave the call
  destroys,      \* the calls of destroy() so far
  destroyed,     \* what the last call of destroy() returned or raised
  preload        \* the import of _preloaded_resolved_tools, and its preloaded_obj

vars == <<api_endpoint, clock, pc, kind, args, start_time, health_start, sent, probes,
          health, response, result, client, normalized, destroys, destroyed, preload>>

\* no httpx.AsyncClient held open
NoClient == 0
\* the clients that are open, over all the calls
OpenClients == { client[c] : c \in Tasks } \ {NoClient}
\* httpx.AsyncClient(): a new client, none of those that are open
AsyncClient(open) ==
  CHOOSE i \in 1..(Cardinality(open) + 1) : i \notin open /\ \A j \in 1..(i - 1) : j \in open

\* _process_http_response has not been called
NotCalled == Raises("not called")
\* what _process_http_response gives the call for what its POST resolved
\* to; it is not called when client.post raised
normalizer_returns(r) == IF IsResponse(r) THEN process_http_response(r) ELSE NotCalled

\* the proxy after its construction, no call made
ProxyInit ==
  /\ api_endpoint \in Endpoints
  /\ clock = 0
  /\ pc = [c \in Tasks |-> "idle"]
  /\ kind = [c \in Tasks |-> "none"]
  /\ args = [c \in Tasks |-> NoArgs]
  /\ start_time = [c \in Tasks |-> 0]
  /\ health_start = [c \in Tasks |-> 0]
  /\ sent = [c \in Tasks |-> <<>>]
  /\ probes = [c \in Tasks |-> <<>>]
  /\ health = [c \in Tasks |-> NoResponse]
  /\ response = [c \in Tasks |-> NoResponse]
  /\ result = [c \in Tasks |-> Pending]
  /\ client = [c \in Tasks |-> NoClient]
  /\ normalized = [c \in Tasks |-> NotCalled]
  /\ destroys = 0
  /\ destroyed = Pending

Init == ProxyInit /\ preload = NotImported(<<>>, EmptyDict)

\* the wall clock advances
Tick ==
  /\ clock < MaxClock
  /\ clock' = clock + 1
  /\ UNCHANGED <<api_endpoint, pc, kind, args, start_time, health_start, sent, probes,
                 health, response, result, client, normalized, destroys, destroyed,
                 preload>>

\* a task awaits a new call once its last one is over; the call's locals are new
new_call(c, k, a) ==
  /\ pc[c] \in {"idle", "done"}
  /\ pc' = [pc EXCEPT ![c] = "ensure"]
  /\ kind' = [kind EXCEPT ![c] = k]
  /\ args' = [args EXCEPT ![c] = a]
  /\ health_start' = [health_start EXCEPT ![c] = 0]
  /\ sent' = [sent EXCEPT ![c] = <<>>]
  /\ probes' = [probes EXCEPT ![c] = <<>>]
  /\ health' = [health EXCEPT ![c] = NoResponse]
  /\ response' = [response EXCEPT ![c] = NoResponse]
  /\ result' = [result EXCEPT ![c] = Pending]
  /\ normalized' = [normalized EXCEPT ![c] = NotCalled]
  /\ UNCHANGED <<api_endpoint, clock, client, destroys, destroyed, preload>>

\* exec_line_async(inputs, index, run_id): start_time = datetime.utcnow()
exec_line_async(c, a) ==
  /\ new_call(c, "line", a)
  /\ start_time' = [start_time EXCEPT ![c] = clock]

\* exec_aggregation_async(batch_inputs, aggregation_inputs, run_id)
exec_aggregation_async(c, a) ==
  /\ new_call(c, "aggregation", a)
  /\ start_time' = [start_time EXCEPT ![c] = 0]

\* _ensure_executor_health: start_time = datetime.utcnow()
ensure_executor_health(c) ==
  /\ pc[c] = "ensure"
  /\ pc' = [pc EXCEPT ![c] = "while"]
  /\ health_start' = [health_start EXCEPT ![c] = clock]
  /\ UNCHANGED <<api_endpoint, clock, kind, args, start_time, sent, probes, health,
                 response, result, client, normalized, destroys, destroyed, preload>>

\* a slip: the loop's test never fails (`while True`)
health_wait_forever(now, start) == TRUE

\* while (datetime.utcnow() - start_time).seconds < waiting_health_timeout
health_wait(now, start) == Seconds(now, start) < waiting_health_timeout

\* the loop's test holds: its body calls check_health, which sends
\* GET {endpoint}/health and awaits it
health_loop_probe(c) ==
  /\ pc[c] = "while"
  /\ health_wait(clock, health_start[c])
  /\ Len(probes[c]) < MaxProbes
  /\ pc' = [pc EXCEPT ![c] = "check_health"]
  /\ client' = [client EXCEPT ![c] = AsyncClient(OpenClients)]
  /\ sent' = [sent EXCEPT ![c] = Append(@, Request("GET", health_url(api_endpoint), PyNone))]
  /\ UNCHANGED <<api_endpoint, clock, kind, args, start_time, health_start, probes,
                 health, response, result, normalized, destroys, destroyed, preload>>

\* a slip: the loop's test fails and the function returns without raising
health_loop_timeout_without_raise(c) ==
  /\ pc[c] = "while"
  /\ ~health_wait(clock, health_start[c])
  /\ pc' = [pc EXCEPT ![c] = "post"]
  /\ UNCHANGED <<api_endpoint, clock, kind, args, start_time, health_start, sent,
                 probes, health, response, result, client, normalized, destroys,
                 destroyed, preload>>

\* the loop's test fails: raise ExecutorServiceUnhealthy
health_loop_timeout(c) ==
  /\ pc[c] = "while"
  /\ ~health_wait(clock, health_start[c])
  /\ pc' = [pc EXCEPT ![c] = "done"]
  /\ result' = [result EXCEPT ![c] = Raise("ExecutorServiceUnhealthy")]
  /\ UNCHANGED <<api_endpoint, clock, kind, args, start_time, health_start, sent,
                 probes, health, response, client, normalized, destroys, destroyed,
                 preload>>

\* a slip: the result of check_health not tested, the function returns
after_check_health_untested(healthy) == "post"
\* a slip: no `return` on a healthy probe, the loop polls on
after_check_health_polling_on(healthy) == "while"

\* where _ensure_executor_health goes on after check_health has returned:
\* `return` on True (the caller posts next), the loop's test on False
after_check_health(healthy) == IF healthy THEN "post" ELSE "while"

\* a slip: no `async with`, the client is closed after a response only
check_health_leaking(c, r) ==
  LET v == check_health_returns(r)
  IN  /\ pc[c] = "check_health"
      /\ health' = [health EXCEPT ![c] = r]
      /\ client' = [client EXCEPT ![c] = IF IsResponse(r) THEN NoClient ELSE @]
      /\ pc' = [pc EXCEPT ![c] = after_check_health(v.n = 1)]
      /\ probes' = [probes EXCEPT ![c] = Append(@, v.n = 1)]
      /\ UNCHANGED <<api_endpoint, clock, kind, args, start_time, health_start, sent,
                     response, result, normalized, destroys, destroyed, preload>>

\* check_health resumes with what its request resolved to, and returns to
\* the loop; an exception it let through would end the call
check_health(c, r) ==
  LET v == check_health_returns(r)
  IN  /\ pc[c] = "check_health"
      /\ health' = [health EXCEPT ![c] = r]
      /\ client' = [client EXCEPT ![c] = NoClient]
      /\ IF Raised(v)
         THEN /\ pc' = [pc EXCEPT ![c] = "done"]
              /\ result' = [result EXCEPT ![c] = v]
              /\ UNCHANGED probes
         ELSE /\ pc' = [pc EXCEPT ![c] = after_check_health(v.n = 1)]
              /\ probes' = [probes EXCEPT ![c] = Append(@, v.n = 1)]
              /\ UNCHANGED result
      /\ UNCHANGED <<api_endpoint, clock, kind, args, start_time, health_start, sent,
                     response, normalized, destroys, destroyed, preload>>

\* the request a call posts once _ensure_executor_health has returned
post_request(endpoint, k, a) ==
  IF k = "line"
  THEN Request("POST", execution_url(endpoint), execution_payload(a[1], a[2], a[3]))
  ELSE Request("POST", aggregation_url(endpoint), aggregation_payload(a[1], a[2], a[3]))

\* a slip: the url is built in place, in the proxy's endpoint
post_building_url_in_place(c) ==
  /\ pc[c] = "post"
  /\ pc' = [pc EXCEPT ![c] = "await_post"]
  /\ api_endpoint' = api_endpoint \o (IF kind[c] = "line" THEN "/Execution" ELSE "/Aggregation")
  /\ client' = [client EXCEPT ![c] = AsyncClient(OpenClients)]
  /\ sent' = [sent EXCEPT ![c] = Append(@, post_request(api_endpoint, kind[c], args[c]))]
  /\ UNCHANGED <<clock, kind, args, start_time, health_start, probes, health, response,
                 result, normalized, destroys, destroyed, preload>>

\* client.post(url, json=payload, timeout=LINE_TIMEOUT_SEC)
post(c) ==
  /\ pc[c] = "post"
  /\ pc' = [pc EXCEPT ![c] = "await_post"]
  /\ client' = [client EXCEPT ![c] = AsyncClient(OpenClients)]
  /\ sent' = [sent EXCEPT ![c] = Append(@, post_request(api_endpoint, kind[c], args[c]))]
  /\ UNCHANGED <<api_endpoint, clock, kind, args, start_time, health_start, probes,
                 health, response, result, normalized, destroys, destroyed, preload>>

\* what the call ends with once its POST has resolved to r: a transport
\* failure propagates, a response is processed
call_returns(k, st, a, r) ==
  IF ~IsResponse(r) THEN Raise("TransportError")
  ELSE IF k = "line" THEN exec_line_returns(PyDatetime(st), a[1], a[2], a[3], r)
  ELSE exec_aggregation_returns(r)

\* the request a call sent last
last_sent(c) == sent[c][Len(sent[c])]

\* a slip: a POST that failed in the transport is sent again
resume_retrying(c, r) ==
  /\ response' = [response EXCEPT ![c] = r]
  /\ client' = [client EXCEPT ![c] = NoClient]
  /\ normalized' = [normalized EXCEPT ![c] = normalizer_returns(r)]
  /\ IF IsResponse(r)
     THEN /\ result' = [result EXCEPT ![c] = call_returns(kind[c], start_time[c], args[c], r)]
          /\ pc' = [pc EXCEPT ![c] = "done"]
     ELSE /\ pc' = [pc EXCEPT ![c] = "post"]
          /\ UNCHANGED result
  /\ UNCHANGED <<api_endpoint, clock, kind, args, start_time, health_start, sent,
                 probes, health, destroys, destroyed, preload>>

\* the call resumes with what its POST resolved to, and ends
resume(c, r) ==
  /\ response' = [response EXCEPT ![c] = r]
  /\ client' = [client EXCEPT ![c] = NoClient]
  /\ normalized' = [normalized EXCEPT ![c] = normalizer_returns(r)]
  /\ result' = [result EXCEPT ![c] = call_returns(kind[c], start_time[c], args[c], r)]
  /\ pc' = [pc EXCEPT ![c] = "done"]
  /\ UNCHANGED <<api_endpoint, clock, kind, args, start_time, health_start, sent,
                 probes, health, destroys, destroyed, preload>>

\* exec_line_async resumes
exec_line_resume(c) ==
  /\ pc[c] = "await_post"
  /\ kind[c] = "line"
  /\ \E r \in ExecutionResponses(last_sent(c)) : resume(c, r)

\* exec_aggregation_async resumes
exec_aggregation_resume(c) ==
  /\ pc[c] = "await_post"
  /\ kind[c] = "aggregation"
  /\ \E r \in AggregationResponses(last_sent(c)) : resume(c, r)

\* exec_line_async resumes, the service working
exec_line_resume_working(c) ==
  /\ pc[c] = "await_post"
  /\ kind[c] = "line"
  /\ \E r \in WorkingExecutionResponses(last_sent(c)) : resume(c, r)

\* a slip: destroy() releases what it released before and raises
destroy_only_once ==
  /\ destroys < MaxDestroys
  /\ destroys' = destroys + 1
  /\ destroyed' = IF destroys = 0 THEN PyNone ELSE Raise("RuntimeError")
  /\ UNCHANGED <<api_endpoint, clock, pc, kind, args, start_time, health_start, sent,
                 probes, health, response, result, client, normalized, preload>>

\* AbstractExecutorProxy.destroy: `pass`; the call returns None
destroy ==
  /\ destroys < MaxDestroys
  /\ destroys' = destroys + 1
  /\ destroyed' = PyNone
  /\ UNCHANGED <<api_endpoint, clock, pc, kind, args, start_time, health_start, sent,
                 probes, health, response, result, client, normalized, preload>>

(***************************************************************************)
(* Spec: one task awaits one call after another; the service answers, and  *)
(* the clock advances, in every way.                                       *)
(***************************************************************************)
Next ==
  \/ Tick
  \/ \E a \in LineArgs : exec_line_async(MainTask, a)
  \/ \E a \in AggregationArgs : exec_aggregation_async(MainTask, a)
  \/ ensure_executor_health(MainTask)
  \/ health_loop_probe(MainTask)
  \/ health_loop_timeout(MainTask)
  \/ \E r \in HealthResponses : check_health(MainTask, r)
  \/ post(MainTask)
  \/ exec_line_resume(MainTask)
  \/ exec_aggregation_resume(MainTask)

Spec == Init /\ [][Next]_vars

(***************************************************************************)
(* ConcurrentSpec: the tasks await line calls concurrently against a       *)
(* service that is up and working; the steps of the calls interleave in    *)
(* every order.                                                            *)
(***************************************************************************)
ConcurrentNext ==
  \E c \in Tasks :
    \/ \E a \in LineArgs : exec_line_async(c, a)
    \/ ensure_executor_health(c)
    \/ health_loop_probe(c)
    \/ check_health(c, Healthy)
    \/ post(c)
    \/ exec_line_resume_working(c)

ConcurrentSpec == Init /\ [][ConcurrentNext]_vars

(***************************************************************************)
(* LifecycleSpec: as Spec, and the proxy's owner calls destroy() at any     *)
(* moment, between the calls and while a call is under way.                *)
(***************************************************************************)
LifecycleNext ==
  \/ Next
  \/ destroy

LifecycleSpec == Init /\ [][LifecycleNext]_vars

(***************************************************************************)
(* LiveSpec: as Spec, and the clock keeps advancing (up to the last        *)
(* reading of the model), the event loop goes on with a coroutine that can *)
(* go on, and every request that is awaited resolves.  The last condition  *)
(* is weak fairness of RequestResolves, written out: that step is enabled  *)
(* exactly when the call awaits its POST.                                  *)
(***************************************************************************)
\* a step the event loop takes with the call of task c
CallStep(c) ==
  \/ ensure_executor_health(c)
  \/ health_loop_probe(c)
  \/ health_loop_timeout(c)
  \/ post(c)

\* the health request the call awaits resolves
ProbeResolves(c) == \E r \in HealthResponses : check_health(c, r)

\* the POST the call awaits resolves
RequestResolves(c) == exec_line_resume(c) \/ exec_aggregation_resume(c)

LiveSpec ==
  /\ Spec
  /\ WF_vars(Tick)
  /\ WF_vars(CallStep(MainTask))
  /\ WF_vars(ProbeResolves(MainTask))
  /\ ([]<>(pc[MainTask] # "await_post") \/ []<><<RequestResolves(MainTask)>>_vars)

(***************************************************************************)
(* PreloadSpec: the import of executor/_preloaded_resolved_tools.py, whose *)
(* last statement constructs preloaded_obj, for every flow and every       *)
(* connections of the model.                                               *)
(***************************************************************************)
proxy_vars ==
  <<api_endpoint, clock, pc, kind, args, start_time, health_start, sent, probes, health,
    response, result, client, normalized, destroys, destroyed>>

\* preloaded_obj = PreloadeResolvedTools(flow_file, connections, working_dir):
\* __init__ loads the flow and builds the tool resolver
preload_import ==
  /\ preload.pc = "import"
  /\ preload' = [preload EXCEPT !.pc = "resolve"]
  /\ UNCHANGED proxy_vars

\* the list comprehension resolves the tool of the next node
preload_resolve_tool ==
  /\ preload.pc = "resolve"
  /\ Len(preload.resolved) < Len(preload.nodes)
  /\ preload' =
       [preload EXCEPT !.resolved =
          Append(@, resolve_tool_by_node(preload.nodes[Len(preload.resolved) + 1],
                                         preload.connections))]
  /\ UNCHANGED proxy_vars

\* self.tools = [...]: the list is complete and is assigned; __init__
\* returns None, or the assignment raises and so does the construction
preload_set_tools ==
  LET r == instance_setattr(preload.dict, "tools", PyList(preload.resolved))
  IN  /\ preload.pc = "resolve"
      /\ Len(preload.resolved) = Len(preload.nodes)
      /\ preload' = [preload EXCEPT !.pc = "done", !.dict = r.dict,
                                    !.result = IF r.exc # "" THEN Raise(r.exc) ELSE PyNone]
      /\ UNCHANGED proxy_vars

PreloadInit ==
  /\ ProxyInit
  /\ preload \in { NotImported(nodes, connections) : nodes \in Flows, connections \in Connections }

PreloadNext ==
  \/ preload_import
  \/ preload_resolve_tool
  \/ preload_set_tools

PreloadSpec == PreloadInit /\ [][PreloadNext]_vars

(***************************************************************************)
(* What the claims speak of.                                               *)
(***************************************************************************)
\* the health probes a call has started, and the requests it has posted
Gets(c) == Len(SelectSeq(sent[c], LAMBDA q : q.t = "GET"))
Posts(c) == Len(SelectSeq(sent[c], LAMBDA q : q.t = "POST"))
\* the call of task c is over
Done(c) == pc[c] = "done"
LineDone(c) == Done(c) /\ kind[c] = "line"
\* check_health has returned to the call, and never True / never False
SomeProbe(c) == Len(probes[c]) >= 1
NoProbeHealthy(c) == \A i \in 1..Len(probes[c]) : ~probes[c][i]
EveryProbeHealthy(c) == \A i \in 1..Len(probes[c]) : probes[c][i]
LastProbe(c) == probes[c][Len(probes[c])]
HealthTimeout == Raise("ExecutorServiceUnhealthy")
\* the POST of the call resolved to a response, of a status other than 200
FailureResponse(c) == IsResponse(response[c]) /\ response[c].n # 200
SuccessResponse(c) == IsResponse(response[c]) /\ response[c].n = 200
\* the degraded LineResult of the call of task c, carrying `error`
Degraded(c, error) ==
  LineResult(EmptyDict, EmptyDict,
             FlowRunInfo(args[c][3], args[c][2], args[c][1], PyDatetime(start_time[c]), error),
             EmptyDict)

(***************************************************************************)
(* C1.  A call posts its Execution or Aggregation request only after a     *)
(* health probe of that same call has returned healthy: the POST is the    *)
(* last request the call sends, at least one GET /health of the call comes *)
(* before it, and the last probe completed before it returned True on a    *)
(* 200 response.  The probes of an earlier call do not count.              *)
(***************************************************************************)
C1_DispatchOnlyAfterHealthyProbe ==
  \A c \in Tasks : \A i \in 1..Len(sent[c]) :
    sent[c][i].t = "POST" =>
      /\ i = Len(sent[c])
      /\ i >= 2
      /\ \A j \in 1..(i - 1) : sent[c][j].t = "GET"
      /\ Len(probes[c]) = i - 1
      /\ LastProbe(c)
      /\ health[c] = Healthy

\* a call has posted after an unhealthy probe and then a healthy one
C1_Witness ==
  \E c \in Tasks : Posts(c) = 1 /\ probes[c] = <<FALSE, TRUE>> /\ Done(c)

(***************************************************************************)
(* C2.  A line call none of whose probes was healthy, once over, has       *)
(* posted no Execution request and has raised ExecutorServiceUnhealthy     *)
(* (no LineResult).                                                        *)
(***************************************************************************)
C2_AllProbesFailRaisesTimeout ==
  \A c \in Tasks :
    (LineDone(c) /\ NoProbeHealthy(c)) => (Posts(c) = 0 /\ result[c] = HealthTimeout)

\* a line call whose probes all failed until the budget was spent
C2_Witness ==
  \E c \in Tasks :
    /\ LineDone(c) /\ Len(probes[c]) = MaxProbes /\ NoProbeHealthy(c)
    /\ Seconds(clock, health_start[c]) >= waiting_health_timeout
    /\ result[c] = HealthTimeout

C4_ErrorFieldGivesDegradedResult ==
  \A c \in Tasks :
    (LineDone(c) /\ FailureResponse(c)
       /\ json_loads(response[c].s).ok
       /\ json_loads(response[c].s).v.t = "dict"
       /\ HasKey(json_loads(response[c].s).v, "error"))
    => result[c] = Degraded(c, GetItem(json_loads(response[c].s).v, "error"))

\* the body {"error": {"message": "boom"}} came with status 500, and the
\* call returned the degraded result that carries {"message": "boom"}
C4_Witness ==
  \E c \in Tasks :
    /\ LineDone(c)
    /\ response[c] = Response(500, "{\"error\": {\"message\": \"boom\"}}")
    /\ args[c][2] = PyInt(1)
    /\ start_time[c] > 0
    /\ result[c] = Degraded(c, PyDict(<<PyItem("message", PyStr("boom"))>>))

(***************************************************************************)
(* C5.  A line call whose POST resolved to a non-200 response with a body  *)
(* that is no JSON returns (does not raise) the degraded LineResult whose  *)
(* error is the text of the response, verbatim.                            *)
(***************************************************************************)
C5_UnparsableBodyGivesRawText ==
  \A c \in Tasks :
    (LineDone(c) /\ FailureResponse(c) /\ ~json_loads(response[c].s).ok)
    => result[c] = Degraded(c, PyStr(response[c].s))

\* the body "Internal Server Error" came with status 500
C5_Witness ==
  \E c \in Tasks :
    /\ LineDone(c)
    /\ response[c] = Response(500, "Internal Server Error")
    /\ result[c] = Degraded(c, PyStr("Internal Server Error"))

(***************************************************************************)
(* C6.  A line call whose POST resolved to a 200 response whose body is    *)
(* the JSON of a LineResult returns that very LineResult: every field,     *)
(* the run info's start time, inputs, index and run_id included, is the    *)
(* body's and not the call's own.                                          *)
(***************************************************************************)
\* the LineResults a body of the model may encode
EncodedLineResults ==
  { ServiceLineResult(execution_payload(a[1], a[2], a[3])) : a \in LineArgs }

C6_SuccessBodyRoundTrips ==
  \A c \in Tasks : \A lr \in EncodedLineResults :
    (LineDone(c) /\ SuccessResponse(c)
       /\ response[c].s = json_dumps(LineResult_serialize(lr)))
    => result[c] = lr

\* a line call returned the service's LineResult, whose start time is not
\* the call's own
C6_Witness ==
  \E c \in Tasks :
    /\ LineDone(c) /\ SuccessResponse(c) /\ IsLineResult(result[c])
    /\ result[c].kids[1] = PyDict(<<PyItem("answer", PyStr("b"))>>)
    /\ result[c].kids[3].kids[4] = PyDatetime(ServiceNow)
    /\ result[c].kids[3].kids[4] # PyDatetime(start_time[c])

(***************************************************************************)
(* C7.  Line calls awaited concurrently against a working service, their   *)
(* probes, posts and responses interleaved in any order, each return a     *)
(* LineResult whose run_id, index and inputs are the call's own, and whose *)
(* output, when the line succeeded, answers the call's own inputs.         *)
(***************************************************************************)
C7_ConcurrentCallsKeepTheirKeys ==
  \A c \in Tasks :
    Done(c) =>
      /\ IsLineResult(result[c])
      /\ result[c].kids[3].kids[1] = args[c][3]
      /\ result[c].kids[3].kids[2] = args[c][2]
      /\ result[c].kids[3].kids[3] = args[c][1]
      /\ SuccessResponse(c) =>
           result[c].kids[1] = PyDict(<<PyItem("answer", GetItem(args[c][1], "question"))>>)

\* all the tasks' calls are over, their indices differ, lines have succeeded
\* and a line has failed
C7_Witness ==
  /\ \A c \in Tasks : Done(c) /\ IsLineResult(result[c])
  /\ \A c, d \in Tasks : c # d => args[c][2] # args[d][2]
  /\ \E c, d \in Tasks :
       /\ c # d /\ SuccessResponse(c) /\ SuccessResponse(d)
       /\ result[c].kids[1] # result[d].kids[1]
  /\ \E c \in Tasks : FailureResponse(c)

(***************************************************************************)
(* C8.  As claimed: a line call that is over has returned a LineResult or  *)
(* raised the health timeout, whatever the service did.                    *)
(***************************************************************************)
C8_LineResultOrHealthTimeout ==
  \A c \in Tasks : LineDone(c) => (IsLineResult(result[c]) \/ result[c] = HealthTimeout)

\* a LineResult with its four fields, the run info with its five
CompleteLineResult(r) ==
  /\ IsLineResult(r) /\ Len(r.kids) = 4
  /\ r.kids[3].t = "FlowRunInfo" /\ Len(r.kids[3].kids) = 5

(***************************************************************************)
(* C8, amended.  A line call that is over has returned a complete          *)
(* LineResult, or raised the health timeout before any POST, or let        *)
(* through the failure of its POST (transport failure, timeout), or let    *)
(* through what the decoding of the response raised: for a 200 body that   *)
(* is no JSON or encodes no LineResult, and for a non-200 body that is     *)
(* JSON but no dict and on which the lookup of "error" raises.             *)
(***************************************************************************)
C8_OutcomesOfALineCall ==
  \A c \in Tasks :
    LineDone(c) =>
      \/ CompleteLineResult(result[c])
      \/ result[c] = HealthTimeout /\ Posts(c) = 0
      \/ result[c] = Raise("TransportError") /\ Posts(c) = 1 /\ response[c] = TransportError
      \/ /\ result[c] = Raise("JSONDecodeError")
         /\ SuccessResponse(c) /\ ~json_loads(response[c].s).ok
      \/ /\ result[c] = Raise("MalformedResponse")
         /\ SuccessResponse(c) /\ json_loads(response[c].s).ok
         /\ ~IsLineResultDict(json_loads(response[c].s).v)
      \/ /\ result[c] = Raise("TypeError")
         /\ FailureResponse(c) /\ json_loads(response[c].s).ok
         /\ json_loads(response[c].s).v.t # "dict"

\* a line call let the transport failure of its POST through
C8_Witness ==
  \E c \in Tasks :
    /\ LineDone(c) /\ Posts(c) = 1 /\ response[c] = TransportError
    /\ result[c] = Raise("TransportError")

(***************************************************************************)
(* C9.  check_health never raises: a health request that fails in the      *)
(* transport, or resolves to a status other than 200, makes it return      *)
(* False; the loop goes on with its test and the next probe, and a call    *)
(* that ends before its POST ends with the health timeout.                 *)
(***************************************************************************)
C9_ProbeNeverRaises ==
  \A c \in Tasks :
    /\ (health[c] # NoResponse /\ health[c] # Healthy) => (SomeProbe(c) /\ ~LastProbe(c))
    /\ (SomeProbe(c) /\ ~LastProbe(c) /\ ~Done(c))
         => (pc[c] \in {"while", "check_health"} /\ result[c] = Pending)
    /\ (Done(c) /\ Posts(c) = 0) => result[c] = HealthTimeout

\* after a probe that failed in the transport, the next probe is under way
C9_Witness ==
  \E c \in Tasks :
    /\ pc[c] = "check_health" /\ Gets(c) = 2
    /\ health[c] = TransportError /\ probes[c] = <<FALSE>>
    /\ result[c] = Pending

(***************************************************************************)
(* C10.  As claimed: check_health returns True for every 2xx status and    *)
(* False for every other status.                                           *)
(***************************************************************************)
C10_HealthyOnAny2xx ==
  \A c \in Tasks :
    (IsResponse(health[c]) /\ SomeProbe(c))
    => (LastProbe(c) <=> (health[c].n >= 200 /\ health[c].n <= 299))

(***************************************************************************)
(* C10, amended.  check_health returns True for status 200 and False for   *)
(* every other status, the other 2xx statuses included.                    *)
(***************************************************************************)
C10_HealthyOn200Only ==
  \A c \in Tasks :
    (IsResponse(health[c]) /\ SomeProbe(c)) => (LastProbe(c) <=> health[c].n = 200)

\* a probe resolved to 204 and check_health returned False
C10_Witness ==
  \E c \in Tasks :
    /\ health[c] = Response(204, "") /\ SomeProbe(c) /\ ~LastProbe(c)
    /\ pc[c] = "while"

(***************************************************************************)
(* C11.  A call posts at most once: whatever its POST resolves to, a       *)
(* transport failure or a response of any status, the call is over with no *)
(* second POST, and a transport failure has come out of the call as the    *)
(* exception it was, after exactly one POST.                               *)
(***************************************************************************)
C11_AtMostOnePostNoRetry ==
  \A c \in Tasks :
    /\ Posts(c) <= 1
    /\ response[c] # NoResponse => (Done(c) /\ Posts(c) = 1)
    /\ response[c] = TransportError => result[c] = Raise("TransportError")

\* an aggregation call is over with the transport failure of its one POST
C11_Witness ==
  \E c \in Tasks :
    /\ Done(c) /\ kind[c] = "aggregation" /\ response[c] = TransportError
    /\ Posts(c) = 1 /\ sent[c][Len(sent[c])].t = "POST"
    /\ result[c] = Raise("TransportError")

(***************************************************************************)
(* C12.  destroy() may be called any number of times, between the calls    *)
(* and while a call is under way: every call of it returns None (none      *)
(* raises), the second as the first, and a step of destroy() leaves the    *)
(* endpoint and every call of the proxy, its open client and its result    *)
(* included, as they were.                                                 *)
(***************************************************************************)
C12_DestroyIdempotentNoOp ==
  /\ [](destroys >= 1 => destroyed = PyNone)
  /\ [][destroys' # destroys =>
          UNCHANGED <<api_endpoint, pc, kind, args, start_time, health_start, sent,
                      probes, health, response, result, client, normalized>>]_vars

\* destroy() has been called twice and has returned None, a line call is
\* over with a LineResult and the endpoint is the one of the construction
C12_Witness ==
  /\ destroys = MaxDestroys /\ MaxDestroys >= 2 /\ destroyed = PyNone
  /\ LineDone(MainTask) /\ IsLineResult(result[MainTask])
  /\ api_endpoint \in Endpoints

(***************************************************************************)
(* C13.  As claimed: _ensure_executor_health returns after the first       *)
(* healthy probe and starts no probe after it; it raises the health        *)
(* timeout only when no probe of the call was healthy and the whole        *)
(* seconds elapsed since its start are 5 or more; it starts no probe once  *)
(* the whole seconds elapsed are 5 or more; and it starts at least one     *)
(* probe before it returns or raises.                                      *)
(***************************************************************************)
\* the call is past _ensure_executor_health, by return or by raise
EnsureOver(c) == pc[c] \in {"post", "await_post", "done"}
\* the whole seconds elapsed since _ensure_executor_health started
Elapsed(c) == Seconds(clock, health_start[c])

C13_ReturnsAfterFirstHealthyProbe ==
  \A c \in Tasks :
    (SomeProbe(c) /\ LastProbe(c)) =>
      /\ EnsureOver(c) /\ result[c] # HealthTimeout
      /\ Gets(c) = Len(probes[c])
      /\ \A i \in 1..(Len(probes[c]) - 1) : ~probes[c][i]

C13_RaisesOnlyPastTheBudget ==
  \A c \in Tasks :
    result[c] = HealthTimeout => (NoProbeHealthy(c) /\ Elapsed(c) >= waiting_health_timeout)

C13_NoProbePastTheBudget ==
  \A c \in Tasks :
    (Len(sent'[c]) > Len(sent[c]) /\ sent'[c][Len(sent'[c])].t = "GET")
    => Elapsed(c) < waiting_health_timeout

C13_AtLeastOneProbe ==
  \A c \in Tasks : EnsureOver(c) => Gets(c) >= 1

C13_EnsureProbesUntilHealthyOrTimeout ==
  /\ [](C13_ReturnsAfterFirstHealthyProbe /\ C13_RaisesOnlyPastTheBudget)
  /\ [][C13_NoProbePastTheBudget]_vars
  /\ []C13_AtLeastOneProbe

(***************************************************************************)
(* C14.  Under LiveSpec every call that is under way ends, by a return or  *)
(* by a raise: a call that is past its health probes always, and a call in *)
(* its health loop, whether its probes fail or not, provided the 5 seconds *)
(* of its budget end within the clock readings of the model.               *)
(***************************************************************************)
\* the clock of the model reaches the end of the health budget of the call
BudgetEndsInTheModel(c) ==
  health_start[c] + waiting_health_timeout * TicksPerSecond <= MaxClock

\* the call is under way, past its health probes or within its budget
UnderWay(c) ==
  \/ pc[c] \in {"post", "await_post"}
  \/ pc[c] \in {"while", "check_health"} /\ BudgetEndsInTheModel(c)

C14_EveryCallTerminates == UnderWay(MainTask) ~> Done(MainTask)

\* an aggregation call has ended with the health timeout, after all the
\* probes the model lets it make have failed
C14_Witness ==
  \E c \in Tasks :
    /\ Done(c) /\ kind[c] = "aggregation" /\ result[c] = HealthTimeout
    /\ Len(probes[c]) = MaxProbes /\ NoProbeHealthy(c) /\ BudgetEndsInTheModel(c)

(***************************************************************************)
(* C15.  As claimed: for every response _process_http_response returns     *)
(* (parsed body, False) on status 200; on any other status it returns      *)
(* (the value of "error", True) when the body parses and has an "error"    *)
(* field, (the whole parsed body, True) when the body parses and has none, *)
(* and (the text, True) when the body does not parse.  has_error is True   *)
(* exactly when the status is not 200.                                     *)
(***************************************************************************)
\* the parsed body of the response to the POST of the call
Body(c) == json_loads(response[c].s)
\* the parsed body has an "error" field: it is a dict with that key
HasErrorField(v) == v.t = "dict" /\ HasKey(v, "error")
\* the call is over and its POST resolved to a response
Normalized(c) == Done(c) /\ IsResponse(response[c])

C15_NormalizerMapping ==
  \A c \in Tasks :
    Normalized(c) =>
      /\ (SuccessResponse(c) /\ Body(c).ok) => normalized[c] = Returns(Body(c).v, FALSE)
      /\ (FailureResponse(c) /\ Body(c).ok /\ HasErrorField(Body(c).v))
           => normalized[c] = Returns(GetItem(Body(c).v, "error"), TRUE)
      /\ (FailureResponse(c) /\ Body(c).ok /\ ~HasErrorField(Body(c).v))
           => normalized[c] = Returns(Body(c).v, TRUE)
      /\ (FailureResponse(c) /\ ~Body(c).ok) => normalized[c] = Returns(PyStr(response[c].s), TRUE)
      /\ FailureResponse(c) => (normalized[c].exc = "" /\ normalized[c].has_error)
      /\ SuccessResponse(c) => ~normalized[c].has_error

(***************************************************************************)
(* C16.  An aggregation call posts, after a healthy probe, to              *)
(* {endpoint}/Aggregation the body {run_id, batch_inputs,                  *)
(* aggregation_inputs} of its own arguments.  What _process_http_response  *)
(* returns goes to AggregationResult.deserialize whether has_error is True *)
(* or False: the call never returns a LineResult or another degraded       *)
(* shape.  A call that raises before its POST raises the health timeout;   *)
(* after the POST it only lets through what client.post, the normalizer or *)
(* the deserialization raised.                                             *)
(***************************************************************************)
C16_AggregationHasNoDegradedBranch ==
  \A c \in Tasks :
    kind[c] = "aggregation" =>
      /\ Posts(c) = 1 =>
           /\ SomeProbe(c) /\ LastProbe(c)
           /\ last_sent(c) =
                Request("POST", api_endpoint \o "/Aggregation",
                        PyDict(<<PyItem("run_id", args[c][3]),
                                 PyItem("batch_inputs", args[c][1]),
                                 PyItem("aggregation_inputs", args[c][2])>>))
      /\ (Normalized(c) /\ normalized[c].exc = "")
           => result[c] = AggregationResult_deserialize(normalized[c].payload)
      /\ Done(c) => ~IsLineResult(result[c])
      /\ (Done(c) /\ Posts(c) = 0) => result[c] = HealthTimeout
      /\ (Done(c) /\ Posts(c) = 1 /\ Raised(result[c])) =>
           \/ response[c] = TransportError /\ result[c] = Raise("TransportError")
           \/ Normalized(c) /\ normalized[c].exc # "" /\ result[c] = Raise(normalized[c].exc)
           \/ Normalized(c) /\ normalized[c].exc = "" /\ normalized[c].payload.t # "dict"

\* the body {"error": {"message": "boom"}} came with status 500: has_error
\* was True, and the call returned the AggregationResult that
\* {"message": "boom"} deserializes to
C16_Witness ==
  \E c \in Tasks :
    /\ Done(c) /\ kind[c] = "aggregation"
    /\ response[c] = Response(500, "{\"error\": {\"message\": \"boom\"}}")
    /\ normalized[c] = Returns(PyDict(<<PyItem("message", PyStr("boom"))>>), TRUE)
    /\ result[c] = AggregationResult(PyNone, PyNone, EmptyDict)

(***************************************************************************)
(* C19.  As claimed: a line call whose POST resolved to a non-200 response *)
(* with a body that parses, to a dict, a list, a str, a number, a boolean  *)
(* or null, gets (payload, True) from _process_http_response, which does   *)
(* not raise, and returns the degraded LineResult that carries the payload.*)
(***************************************************************************)
C19_AnyShapeGivesDegradedResult ==
  \A c \in Tasks :
    (LineDone(c) /\ FailureResponse(c) /\ Body(c).ok) =>
      /\ normalized[c].exc = "" /\ normalized[c].has_error
      /\ result[c] = Degraded(c, normalized[c].payload)

(***************************************************************************)
(* C17.  A call holds an open httpx.AsyncClient exactly while it awaits a  *)
(* request, the GET of a probe or its POST: once the request has resolved, *)
(* to a response or to a transport failure, and so once check_health or    *)
(* the call is over, by return or by raise, it holds none.  No two calls   *)
(* hold the same client.                                                   *)
(***************************************************************************)
\* the call awaits a request
Awaits(c) == pc[c] \in {"check_health", "await_post"}

Target(k, method) ==
  IF method = "GET" THEN api_endpoint \o "/health"
  ELSE IF k = "line" THEN api_endpoint \o "/Execution"
  ELSE api_endpoint \o "/Aggregation"

C18_EndpointNeverChanges ==
  /\ [][api_endpoint' = api_endpoint]_vars
  /\ [](api_endpoint \in Endpoints)
  /\ [](\A c \in Tasks : \A i \in 1..Len(sent[c]) :
          sent[c][i].s = Target(kind[c], sent[c][i].t))

\* after a destroy(), an aggregation call is over with a failure response;
\* it had sent its GET to /health and its POST to /Aggregation
C18_Witness ==
  \E c \in Tasks :
    /\ destroys >= 1 /\ Done(c) /\ kind[c] = "aggregation" /\ FailureResponse(c)
    /\ Len(sent[c]) = 2
    /\ sent[c][1].s = "http://localhost:8000/health"
    /\ sent[c][2].s = "http://localhost:8000/Aggregation"
    /\ api_endpoint = "http://localhost:8000"

(***************************************************************************)
(* C20.  As claimed: the construction of PreloadeResolvedTools completes   *)
(* (returns, does not raise), and reading `tools` on the object ends and   *)
(* gives the list of the resolved tools, one for each node of the flow, in *)
(* the order of the nodes.                                                 *)
(***************************************************************************)
C20_ToolsOnePerNode ==
  preload.pc = "done" =>
    /\ preload.result = PyNone
    /\ instance_getattr(preload.dict, "tools", 0) =
         resolved_tools(preload.nodes, preload.connections)

====
